---- MODULE Spec2Model ----
(***************************************************************************)
(* Model of scripts/generate_docs.py: the documentation batch runner.      *)
(*                                                                         *)
(* File names and titles are sequences of character codes (ASCII), so      *)
(* that sorting, Path.stem, str.replace and str.title are computed the way *)
(* Python computes them.  A directory is a function from file names to     *)
(* file contents.  The pyLODE renderer and the filesystem primitives are   *)
(* the environment: each call either does its work or raises.              *)
(***************************************************************************)
EXTENDS Integers, Sequences, FiniteSets, TLC

(***************************************************************************)
(* Bounds of the model.                                                    *)
(***************************************************************************)
MaxFiles == 2

(***************************************************************************)
(* Strings as sequences of character codes.                                *)
(***************************************************************************)
DotTtl == <<46, 116, 116, 108>>
DotHtml == <<46, 104, 116, 109, 108>>
IndexHtml == <<105, 110, 100, 101, 120, 46, 104, 116, 109, 108>>

\* The stems of the ontology files a repository root may hold:
\* "aB", "alpha", "beta_one", "broken", "index", "v2b".
SampleStems ==
  { <<97, 66>>,
    <<97, 108, 112, 104, 97>>,
    <<98, 101, 116, 97, 95, 111, 110, 101>>,
    <<98, 114, 111, 107, 101, 110>>,
    <<105, 110, 100, 101, 120>>,
    <<118, 50, 98>> }

\* A file of the root that is no ontology file: "x.md".
OtherFile == <<120, 46, 109, 100>>

RootNames == { s \o DotTtl : s \in SampleStems } \cup { OtherFile }

\* A file left in the output directory by an earlier run: "alpha.html".
StaleName == <<97, 108, 112, 104, 97>> \o DotHtml

(***************************************************************************)
(* File contents.                                                          *)
(***************************************************************************)
TtlContent(name) ==
  [kind |-> "ttl", of |-> name, entries |-> << >>]

StaleContent ==
  [kind |-> "stale", of |-> << >>, entries |-> << >>]

NoDir == << >>

Put(d, n, c) ==
  [x \in (DOMAIN d) \cup {n} |-> IF x = n THEN c ELSE d[x]]

(***************************************************************************)
(* Character classes and case conversion (ASCII).                          *)
(***************************************************************************)
IsLower(c) == c >= 97 /\ c <= 122
IsUpper(c) == c >= 65 /\ c <= 90
IsLetter(c) == IsLower(c) \/ IsUpper(c)
ToUpper(c) == IF IsLower(c) THEN c - 32 ELSE c
ToLower(c) == IF IsUpper(c) THEN c + 32 ELSE c

(***************************************************************************)
(* find_ttl_files: root_dir.glob("*.ttl") and sorted().                    *)
(***************************************************************************)
\* The pattern "*.ttl" matched against a file name.
MatchesTtl(name) ==
  /\ Len(name) >= Len(DotTtl)
  /\ SubSeq(name, Len(name) - Len(DotTtl) + 1, Len(name)) = DotTtl

\* Comparison of two paths of the same directory: the comparison of their
\* names as strings, code point by code point, a proper prefix being smaller.
RECURSIVE LexLess(_, _)
LexLess(a, b) ==
  IF b = << >> THEN FALSE
  ELSE IF a = << >> THEN TRUE
  ELSE IF Head(a) < Head(b) THEN TRUE
  ELSE IF Head(a) > Head(b) THEN FALSE
  ELSE LexLess(Tail(a), Tail(b))

RECURSIVE Insert(_, _)
Insert(x, s) ==
  IF s = << >> THEN <<x>>
  ELSE IF LexLess(Head(s), x) THEN <<Head(s)>> \o Insert(x, Tail(s))
  ELSE <<x>> \o s

RECURSIVE InsertionSort(_)
InsertionSort(s) ==
  IF s = << >> THEN << >> ELSE Insert(Head(s), InsertionSort(Tail(s)))

\* sorted() left out: the list in the order the directory scan gave it.
SortedUnsorted(s) == s

Sorted(s) == InsertionSort(s)

\* The orders in which a directory scan may yield the members of a set.
Orderings(S) ==
  { q \in [1..Cardinality(S) -> S] : \A x \in S : \E k \in DOMAIN q : q[k] = x }

\* The results glob() may give for a directory: its matching names, in any order.
Glob(dir) == Orderings({ n \in DOMAIN dir : MatchesTtl(n) })

(***************************************************************************)
(* Path.stem and the output file name.                                     *)
(***************************************************************************)
\* str.rfind('.') as a 1-based position, 0 when there is no dot.
RECURSIVE RFindDot(_, _)
RFindDot(name, k) ==
  IF k = 0 THEN 0
  ELSE IF name[k] = 46 THEN k
  ELSE RFindDot(name, k - 1)

Stem(name) ==
  LET i == RFindDot(name, Len(name))
  IN  IF i > 1 /\ i < Len(name) THEN SubSeq(name, 1, i - 1) ELSE name

HtmlFilename(name) == Stem(name) \o DotHtml

(***************************************************************************)
(* str.replace('_', ' ') and str.title().                                  *)
(***************************************************************************)
ReplaceUnderscores(s) ==
  [k \in DOMAIN s |-> IF s[k] = 95 THEN 32 ELSE s[k]]

\* str.title(): a scan that remembers whether the previous character was cased.
RECURSIVE TitleScan(_, _)
TitleScan(s, previousIsCased) ==
  IF s = << >> THEN << >>
  ELSE LET c == Head(s)
       IN  IF IsLower(c)
           THEN <<IF previousIsCased THEN c ELSE ToUpper(c)>> \o TitleScan(Tail(s), TRUE)
           ELSE IF IsUpper(c)
           THEN <<IF previousIsCased THEN ToLower(c) ELSE c>> \o TitleScan(Tail(s), TRUE)
           ELSE <<c>> \o TitleScan(Tail(s), FALSE)

\* A title-casing that leaves every character but a lower-case word start alone.
TitleKeepsCase(s) ==
  [k \in DOMAIN s |->
     IF IsLower(s[k]) /\ (k = 1 \/ ~IsLetter(s[k - 1])) THEN ToUpper(s[k]) ELSE s[k]]

Title(s) == TitleScan(s, FALSE)

DisplayTitle(name) == Title(ReplaceUnderscores(Stem(name)))

(***************************************************************************)
(* generate_documentation: what one call does to the output directory.     *)
(*                                                                         *)
(* The environment decides the outcome of a call:                          *)
(*   "mkdir_raise"      mkdir raises, nothing is created                   *)
(*   "render_raise"     the renderer raises, no file is produced           *)
(*   "copy_raise_open"  the renderer wrote the page, copy2 raises before   *)
(*                      the copy is written                                *)
(*   "copy_raise_stat"  copy2 wrote the copy and raises while copying the  *)
(*                      metadata                                           *)
(*   "ok"               every step succeeded                               *)
(***************************************************************************)
Outcomes ==
  {"mkdir_raise", "render_raise", "copy_raise_open", "copy_raise_stat", "ok"}

\* mkdir(parents=True, exist_ok=True) cannot fail on a directory that exists.
PossibleOutcomes(exists) ==
  IF exists THEN Outcomes \ {"mkdir_raise"} ELSE Outcomes

HtmlContent(name) ==
  [kind |-> "html", of |-> name, entries |-> << >>]

\* OntPub(ontology=ttl_file).make_html(destination=output_file)
MakeHtml(d, name) == Put(d, HtmlFilename(name), HtmlContent(name))

\* A copy written under the name of the rendered page.
Copy2OverHtml(d, src, name) == Put(d, HtmlFilename(name), src[name])

\* shutil.copy2(ttl_file, output_dir / ttl_file.name)
Copy2(d, src, name) == Put(d, name, src[name])

DirAfter(exists, outcome) == exists \/ outcome # "mkdir_raise"

\* A renderer failure that leaves the page behind all the same.
DocsAfterKeepsFailed(d, src, name, outcome) ==
  IF outcome = "mkdir_raise" THEN d
  ELSE IF outcome \in {"render_raise", "copy_raise_open"} THEN MakeHtml(d, name)
  ELSE Copy2(MakeHtml(d, name), src, name)

DocsAfter(d, src, name, outcome) ==
  IF outcome \in {"mkdir_raise", "render_raise"} THEN d
  ELSE IF outcome = "copy_raise_open" THEN MakeHtml(d, name)
  ELSE Copy2(MakeHtml(d, name), src, name)

\* The return value: True at the end of the try block, False in the handler.
Returns(outcome) == outcome = "ok"

\* The lines the handler prints to standard error.
ErrorLines(name, outcome) ==
  IF Returns(outcome) THEN << >> ELSE <<name>>

\* The steps of one call, in the order they happen.
CallEvents(name, outcome) ==
  <<[op |-> "generate_documentation", file |-> name]>>
  \o (IF outcome \in {"mkdir_raise", "render_raise"} THEN << >>
      ELSE <<[op |-> "make_html", file |-> name]>>)
  \o (IF outcome \in {"copy_raise_stat", "ok"}
      THEN <<[op |-> "copy2", file |-> name]>> ELSE << >>)

(***************************************************************************)
(* generate_index: one list item per file of the list it is given.         *)
(***************************************************************************)
IndexEntry(name) ==
  [href |-> HtmlFilename(name),
   title |-> DisplayTitle(name),
   source |-> name,
   data_ontology |-> HtmlFilename(name)]

IndexContent(files) ==
  [kind |-> "index", of |-> << >>,
   entries |-> [k \in DOMAIN files |-> IndexEntry(files[k])]]

WriteIndex(d, files) == Put(d, IndexHtml, IndexContent(files))

(***************************************************************************)
(* main: the counters and the exit status.                                 *)
(***************************************************************************)
\* A test that never sees an empty list.
NoFilesNever(files) == FALSE

NoFiles(files) == files = << >>

\* A counter that counts every call.
CountEvery(count, ok) == count + 1

Count(count, ok) == IF ok THEN count + 1 ELSE count

\* The comparison off by one: it fails a run in which every file succeeded.
ExitStatusOffByOne(count, total) == IF count <= total THEN 1 ELSE 0

\* sys.exit(1) when fewer files succeeded than were found; 0 at the end of main.
ExitStatus(count, total) == IF count < total THEN 1 ELSE 0

(***************************************************************************)
(* State.                                                                  *)
(***************************************************************************)
VARIABLES
  root,          \* the repository root: file name -> content
  docsExists,    \* whether the output directory exists
  docs,          \* the output directory: file name -> content
  docs0,         \* the output directory before the run
  pc,            \* "start", "loop", "report", "done"
  ttl_files,     \* the list find_ttl_files returned
  done,          \* how many files of ttl_files the loop has processed
  success_count, \* main's counter
  results,       \* the value each call of generate_documentation returned
  outcomes,      \* what the environment did in each call
  stderr,        \* the names in the error lines printed so far
  log,           \* the calls made so far, in order
  exit_status    \* the exit status of the process, -1 while it runs

vars ==
  <<root, docsExists, docs, docs0, pc, ttl_files, done, success_count,
    results, outcomes, stderr, log, exit_status>>

RootDirs ==
  { [n \in S |-> TtlContent(n)] :
      S \in { T \in SUBSET RootNames : Cardinality(T) <= MaxFiles } }

\* The output directory before a run: absent, empty, or holding an old page.
InitialDocs ==
  { [exists |-> FALSE, files |-> NoDir],
    [exists |-> TRUE, files |-> NoDir],
    [exists |-> TRUE, files |-> Put(NoDir, StaleName, StaleContent)] }

Init ==
  /\ root \in RootDirs
  /\ \E d \in InitialDocs :
       /\ docsExists = d.exists
       /\ docs = d.files
       /\ docs0 = d
  /\ pc = "start"
  /\ ttl_files = << >>
  /\ done = 0
  /\ success_count = 0
  /\ results = << >>
  /\ outcomes = << >>
  /\ stderr = << >>
  /\ log = << >>
  /\ exit_status = -1

(***************************************************************************)
(* Actions.                                                                *)
(***************************************************************************)
\* main, lines 232-242: no file found, sys.exit(1).
MainNoFiles ==
  /\ pc = "start"
  /\ \E found \in Glob(root) :
       /\ NoFiles(Sorted(found))
       /\ ttl_files' = Sorted(found)
  /\ pc' = "done"
  /\ exit_status' = 1
  /\ log' = Append(log, [op |-> "exit", file |-> << >>])
  /\ UNCHANGED <<root, docsExists, docs, docs0, done, success_count,
                 results, outcomes, stderr>>

\* main, lines 232-249: the files are found and the loop is entered.
MainFound ==
  /\ pc = "start"
  /\ \E found \in Glob(root) :
       /\ ~NoFiles(Sorted(found))
       /\ ttl_files' = Sorted(found)
  /\ pc' = "loop"
  /\ UNCHANGED <<root, docsExists, docs, docs0, done, success_count,
                 results, outcomes, stderr, log, exit_status>>

\* main, lines 253-255: one iteration, the whole call of generate_documentation.
GenerateDocumentation ==
  /\ pc = "loop"
  /\ done < Len(ttl_files)
  /\ LET name == ttl_files[done + 1]
     IN  \E outcome \in PossibleOutcomes(docsExists) :
           /\ docsExists' = DirAfter(docsExists, outcome)
           /\ docs' = DocsAfter(docs, root, name, outcome)
           /\ results' = Append(results, Returns(outcome))
           /\ outcomes' = Append(outcomes, outcome)
           /\ success_count' = Count(success_count, Returns(outcome))
           /\ stderr' = stderr \o ErrorLines(name, outcome)
           /\ log' = log \o CallEvents(name, outcome)
  /\ done' = done + 1
  /\ UNCHANGED <<root, docs0, pc, ttl_files, exit_status>>

\* main, line 259: generate_index writes index.html.
GenerateIndex ==
  /\ pc = "loop"
  /\ done = Len(ttl_files)
  /\ docsExists
  /\ docs' = WriteIndex(docs, ttl_files)
  /\ pc' = "report"
  /\ log' = log \o <<[op |-> "generate_index", file |-> << >>],
                     [op |-> "write_text", file |-> IndexHtml]>>
  /\ UNCHANGED <<root, docsExists, docs0, ttl_files, done, success_count,
                 results, outcomes, stderr, exit_status>>

\* main, line 259: write_text raises (always when the directory is missing);
\* nothing catches it and the interpreter ends the process with status 1.
GenerateIndexRaises ==
  /\ pc = "loop"
  /\ done = Len(ttl_files)
  /\ pc' = "done"
  /\ exit_status' = 1
  /\ log' = log \o <<[op |-> "generate_index", file |-> << >>],
                     [op |-> "exit", file |-> << >>]>>
  /\ UNCHANGED <<root, docsExists, docs, docs0, ttl_files, done, success_count,
                 results, outcomes, stderr>>

\* main, lines 261-265: the summary line and the exit status.
Report ==
  /\ pc = "report"
  /\ pc' = "done"
  /\ exit_status' = ExitStatus(success_count, Len(ttl_files))
  /\ log' = Append(log, [op |-> "exit", file |-> << >>])
  /\ UNCHANGED <<root, docsExists, docs, docs0, ttl_files, done, success_count,
                 results, outcomes, stderr>>

Next ==
  \/ MainNoFiles
  \/ MainFound
  \/ GenerateDocumentation
  \/ GenerateIndex
  \/ GenerateIndexRaises
  \/ Report

Spec == Init /\ [][Next]_vars

(***************************************************************************)
(* Vocabulary of the properties.                                           *)
(***************************************************************************)
Finished == pc = "done"

StartedEmpty == docs0.files = NoDir

Processed == DOMAIN results

IndexWritten ==
  \E p \in DOMAIN log : log[p].op = "write_text"

EventsOf(ops) == SelectSeq(log, LAMBDA e : e.op \in ops)

\* The position in log of the call of generate_documentation that an event
\* at position p belongs to: the last call at or before p (0 when none).
CallBefore(p) ==
  LET calls == { q \in 1..p : log[q].op = "generate_documentation" }
  IN  IF calls = {} THEN 0 ELSE CHOOSE q \in calls : \A r \in calls : r <= q

StrictlySorted(files) ==
  \A j, k \in DOMAIN files : j < k => LexLess(files[j], files[k])

\* C1: a failure of generate_documentation for one file does not stop the
\* loop: while files are left the next call can be made whatever the earlier
\* results were; at the end of a run that found files, generate_documentation
\* has been called for every file listed after a failed one (and a result is
\* recorded for it), and when some file failed the exit status is non-zero.
C1_PartialFailureTolerance ==
  /\ (pc = "loop" /\ done < Len(ttl_files)) => ENABLED GenerateDocumentation
  /\ (Finished /\ ttl_files # << >>) =>
       /\ \A k \in DOMAIN ttl_files :
            (\E j \in 1..(k - 1) : j \in Processed /\ ~results[j]) =>
              /\ k \in Processed
              /\ \E p \in DOMAIN log :
                   log[p] = [op |-> "generate_documentation", file |-> ttl_files[k]]
       /\ (\E k \in Processed : ~results[k]) => exit_status = 1

C1_Witness ==
  /\ Finished
  /\ Len(ttl_files) = 2
  /\ Len(results) = 2
  /\ ~results[1]
  /\ results[2]
  /\ exit_status = 1

\* C2 as stated: when files were found and every call of
\* generate_documentation returned True, the exit status is 0, whatever the
\* index step did.
C2_Original ==
  (/\ Finished
   /\ ttl_files # << >>
   /\ Len(results) = Len(ttl_files)
   /\ \A k \in Processed : results[k]) => exit_status = 0

\* C2 amended: when files were found and every call of generate_documentation
\* returned True, the exit status is 0 if the index step wrote index.html,
\* and 1 if the index step raised.
C2_ExitZeroWhenIndexWritten ==
  (/\ Finished
   /\ ttl_files # << >>
   /\ Len(results) = Len(ttl_files)
   /\ \A k \in Processed : results[k]) =>
     exit_status = (IF IndexWritten THEN 0 ELSE 1)

C2_Witness ==
  /\ Finished
  /\ Len(ttl_files) = 2
  /\ Len(results) = 2
  /\ \A k \in Processed : results[k]
  /\ IndexWritten
  /\ exit_status = 0

\* C3: when no file is found the run ends at once with exit status 1: no call
\* of generate_documentation or generate_index is made, and the output
\* directory is as it was before the run (absent if it was absent).
C3_NoFilesNoOutput ==
  (pc # "start" /\ ttl_files = << >>) =>
    /\ Finished
    /\ exit_status = 1
    /\ docsExists = docs0.exists
    /\ docs = docs0.files
    /\ log = <<[op |-> "exit", file |-> << >>]>>

C3_Witness ==
  /\ Finished
  /\ ttl_files = << >>
  /\ DOMAIN root # {}
  /\ StaleName \in DOMAIN docs
  /\ exit_status = 1

\* C4 as stated: at the end of a run that started from an empty output
\* directory, a file's page and copy are in the output directory if its
\* result is success, and neither is there if its result is failure.
C4_Original ==
  (Finished /\ StartedEmpty) =>
    \A k \in Processed :
      /\ results[k] =>
           /\ HtmlFilename(ttl_files[k]) \in DOMAIN docs
           /\ ttl_files[k] \in DOMAIN docs
      /\ ~results[k] =>
           /\ HtmlFilename(ttl_files[k]) \notin DOMAIN docs
           /\ ttl_files[k] \notin DOMAIN docs

\* C5 as stated: at the end of a run that started from an empty output
\* directory, the number of pages of the renderer in the output directory is
\* the number of files the renderer rendered.
C5_Original ==
  (Finished /\ StartedEmpty) =>
    Cardinality({ n \in DOMAIN docs : docs[n].kind = "html" })
      = Cardinality({ k \in DOMAIN outcomes :
                        outcomes[k] \notin {"mkdir_raise", "render_raise"} })

\* C6: from the moment a file's result is success, the output directory holds
\* under the file's name the content of the original, through every later
\* step of the run; and every copy was written after the renderer had written
\* the page in the same call of generate_documentation.
C6_CopyOfSuccessfulFile ==
  /\ \A k \in Processed :
       results[k] =>
         /\ ttl_files[k] \in DOMAIN docs
         /\ docs[ttl_files[k]] = root[ttl_files[k]]
  /\ \A p \in DOMAIN log :
       log[p].op = "copy2" =>
         \E q \in 1..(p - 1) :
           /\ log[q] = [op |-> "make_html", file |-> log[p].file]
           /\ CallBefore(q) = CallBefore(p)

C6_Witness ==
  /\ Finished
  /\ Len(results) = 2
  /\ results[1]
  /\ ~results[2]
  /\ IndexWritten
  /\ docs[ttl_files[1]] = root[ttl_files[1]]

\* The entries of the index page that was written (the index page is the
\* last file written, so index.html holds it from then on).
IndexEntries == docs[IndexHtml].entries

\* The name of the k-th file without its ".ttl".
StemOfFile(k) == SubSeq(ttl_files[k], 1, Len(ttl_files[k]) - Len(DotTtl))

\* The stem of the k-th file with every underscore replaced by a space.
SpacedStem(k) ==
  [j \in DOMAIN StemOfFile(k) |->
     IF StemOfFile(k)[j] = 95 THEN 32 ELSE StemOfFile(k)[j]]

\* One entry per file of ttl_files, in the order of ttl_files, which is the
\* sorted order of the names found; each entry links to <stem>.html.
IndexListsEveryFile ==
  /\ docs[IndexHtml].kind = "index"
  /\ Len(IndexEntries) = Len(ttl_files)
  /\ StrictlySorted(ttl_files)
  /\ { ttl_files[k] : k \in DOMAIN ttl_files } = { n \in DOMAIN root : MatchesTtl(n) }
  /\ \A k \in DOMAIN ttl_files :
       /\ IndexEntries[k].source = ttl_files[k]
       /\ IndexEntries[k].href = StemOfFile(k) \o DotHtml
       /\ Len(IndexEntries[k].title) = Len(StemOfFile(k))

\* "Each word capitalized", read as generously as the words allow: the words
\* are separated by spaces, the first character of a word is upper case, and
\* every other character is the character of the stem, or its lower case.
WordsCapitalized(t, s) ==
  \A j \in DOMAIN s :
    IF j = 1 \/ s[j - 1] = 32
    THEN t[j] = ToUpper(s[j])
    ELSE t[j] \in {s[j], ToLower(s[j])}

\* str.title: a word is a maximal run of letters; its first letter is upper
\* case, its other letters are lower case, every other character is kept.
RunsOfLettersTitled(t, s) ==
  \A j \in DOMAIN s :
    t[j] = IF ~IsLetter(s[j]) THEN s[j]
           ELSE IF j = 1 \/ ~IsLetter(s[j - 1]) THEN ToUpper(s[j])
           ELSE ToLower(s[j])

\* C7 as stated: the index page that was written has one entry per file
\* found, in sorted order, failed files included, each linking to
\* <stem>.html, its title being the stem with underscores replaced by spaces
\* and each word capitalized.
C7_Original ==
  IndexWritten =>
    /\ IndexListsEveryFile
    /\ \A k \in DOMAIN ttl_files : WordsCapitalized(IndexEntries[k].title, SpacedStem(k))

\* C7 amended: the index page that was written has one entry per file found,
\* in sorted order, failed files included, each linking to <stem>.html, its
\* title being the stem with underscores replaced by spaces and then
\* title-cased as str.title does: in every maximal run of letters the first
\* letter is upper case and the others are lower case (so a letter after a
\* digit starts a word, and capitals inside a word are lowered).
C7_IndexEntries ==
  IndexWritten =>
    /\ IndexListsEveryFile
    /\ \A k \in DOMAIN ttl_files : RunsOfLettersTitled(IndexEntries[k].title, SpacedStem(k))

C7_Witness ==
  /\ IndexWritten
  /\ Len(ttl_files) = 2
  /\ Len(IndexEntries) = 2
  /\ ~results[1]
  /\ results[2]
  /\ \E j \in DOMAIN SpacedStem(1) : SpacedStem(1)[j] = 32

\* The case of C8: the run started from an empty output directory and is
\* over, some files succeeded, and for every other file the renderer raised.
SomeRenderedSomeRaised ==
  /\ Finished
  /\ StartedEmpty
  /\ Len(outcomes) = Len(ttl_files)
  /\ \A k \in DOMAIN outcomes : outcomes[k] \in {"ok", "render_raise"}
  /\ \E k \in DOMAIN outcomes : outcomes[k] = "ok"
  /\ \E k \in DOMAIN outcomes : outcomes[k] = "render_raise"

ArtifactsOfSuccessful ==
  UNION { {HtmlFilename(ttl_files[k]), ttl_files[k]} :
            k \in { j \in DOMAIN outcomes : outcomes[j] = "ok" } }

FailedNames ==
  LET failedAt == SelectSeq([k \in DOMAIN outcomes |-> k],
                            LAMBDA k : outcomes[k] # "ok")
  IN  [j \in DOMAIN failedAt |-> ttl_files[failedAt[j]]]

\* C8 as stated: in that case the output directory holds the page and the
\* copy of each successful file and no other file, an error line names each
\* failed file, and the exit status is non-zero.
C8_Original ==
  SomeRenderedSomeRaised =>
    /\ DOMAIN docs = ArtifactsOfSuccessful
    /\ stderr = FailedNames
    /\ exit_status = 1

\* C8 amended: in that case the files of the output directory are the page
\* and the copy of each successful file plus, when the index step wrote it,
\* index.html, and no other file; an error line names each failed file, and
\* the exit status is non-zero.
C8_MixedRun ==
  SomeRenderedSomeRaised =>
    /\ DOMAIN docs =
         ArtifactsOfSuccessful \cup (IF IndexWritten THEN {IndexHtml} ELSE {})
    /\ \A k \in DOMAIN outcomes :
         outcomes[k] = "ok" =>
           docs[ttl_files[k]] = root[ttl_files[k]]
    /\ stderr = FailedNames
    /\ exit_status = 1

C8_Witness ==
  /\ SomeRenderedSomeRaised
  /\ IndexWritten
  /\ outcomes = <<"ok", "render_raise">>
  /\ stderr = <<ttl_files[2]>>

\* What the log must be when the run is over: one call of
\* generate_documentation per file in the order of ttl_files, then one call
\* of generate_index, then the exit.
ExpectedCalls ==
  [k \in DOMAIN ttl_files |-> [op |-> "generate_documentation", file |-> ttl_files[k]]]
  \o <<[op |-> "generate_index", file |-> << >>], [op |-> "exit", file |-> << >>]>>

PipelineCalls == EventsOf({"generate_documentation", "generate_index", "exit"})

C10_Original ==
  Finished =>
    \A k \in Processed :
      results[k] =>
        /\ HtmlFilename(ttl_files[k]) \in DOMAIN docs
        /\ docs[HtmlFilename(ttl_files[k])] = HtmlContent(ttl_files[k])

====
